---------------------------- MODULE Spec2Model ----------------------------
(***************************************************************************)
(* A model of the HTTP handlers of the repository: the Node streaming      *)
(* relay (src/unnamed/part_000), the edge streaming relay (first handler   *)
(* of src/unnamed/part_001) and the request normalization that these and   *)
(* the two non-streaming proxies (src/api/proxy.js, src/api/api-proxy.js)  *)
(* apply to the caller's body.                                             *)
(*                                                                         *)
(*   SpecNorm      applies each handler's normalization to a caller body,  *)
(*                 and once more to the payload it gave.                   *)
(*   Spec          runs one request through a streaming handler, together  *)
(*                 with the upstream's and the client's events.            *)
(*   SpecFair      is Spec with the handlers' own steps always taken.      *)
(*   SpecHandlers  runs one request through any of the four handlers; the  *)
(*                 proxies come with their 120 s timer.                    *)
(*   SpecRag       runs one request through the lookup handler             *)
(*                 (src/api/rag.js) and its MongoClient.                   *)
(*   SpecDb        runs overlapping calls of connectToDatabase             *)
(*                 (src/unnamed/part_002) against the module's connection  *)
(*                 cache and the clock.                                    *)
(***************************************************************************)
EXTENDS Integers, Sequences, FiniteSets, TLC

(***************************************************************************)
(* JavaScript values.  Every value is a record of the same shape, so that  *)
(* any two can be compared: t is the typeof tag ("null" kept apart), n/d   *)
(* the number as a fraction (d = 0: NaN), or the identity of a string or   *)
(* an array (a string of identity 0 is the empty string).                  *)
(***************************************************************************)
Undefined == [t |-> "undefined", n |-> 0, d |-> 1]

Null == [t |-> "null", n |-> 0, d |-> 1]

NaN == [t |-> "number", n |-> 0, d |-> 0]

Num(k) == [t |-> "number", n |-> k, d |-> 1]

Dec(k, m) == [t |-> "number", n |-> k, d |-> m]

Bool(b) == [t |-> "boolean", n |-> IF b THEN 1 ELSE 0, d |-> 1]

Str(k) == [t |-> "string", n |-> k, d |-> 1]

Arr(k) == [t |-> "object", n |-> k, d |-> 1]

IsNaN(v) == v.t = "number" /\ v.d = 0

\* JavaScript's ToBoolean, negated: the values `||` and `!` treat as false.
IsFalsy(v) ==
    \/ v.t \in {"undefined", "null"}
    \/ v.t = "number" /\ (v.n = 0 \/ v.d = 0)
    \/ v.t = "boolean" /\ v.n = 0
    \/ v.t = "string" /\ v.n = 0

\* a || b
Or(a, b) == IF IsFalsy(a) THEN b ELSE a

\* JavaScript's ToNumber, as Math.max and Math.min apply it to an argument.
ToNumber(v) ==
    CASE v.t = "number" -> v
      [] v.t = "null" -> Num(0)
      [] v.t = "boolean" -> Num(v.n)
      [] v.t = "string" /\ v.n = 0 -> Num(0)
      [] OTHER -> NaN

NumLeq(x, y) == x.n * y.d <= y.n * x.d

MathMax(a, b) ==
    LET x == ToNumber(a)
        y == ToNumber(b)
    IN  IF IsNaN(x) \/ IsNaN(y) THEN NaN ELSE IF NumLeq(x, y) THEN y ELSE x

MathMin(a, b) ==
    LET x == ToNumber(a)
        y == ToNumber(b)
    IN  IF IsNaN(x) \/ IsNaN(y) THEN NaN ELSE IF NumLeq(x, y) THEN x ELSE y

\* What JSON.stringify leaves of a property value: NaN is written as null
\* (a property holding undefined is left out, which Undefined stands for).
Stringified(v) == IF IsNaN(v) THEN Null ELSE v

(***************************************************************************)
(* Program constants.                                                      *)
(***************************************************************************)
DefaultMaxTokens == 4008

NodeMaxTokensCeiling == 40000

EdgeMaxTokensCeiling == 8192

ProxyMaxTokensCeiling == 40000

ApiProxyMaxTokensCeiling == 40000

DefaultTemperature == Dec(6, 10)

DefaultTopP == Num(1)

DefaultTopK == Num(40)

DefaultPresencePenalty == Num(0)

DefaultFrequencyPenalty == Num(0)

(***************************************************************************)
(* Request bodies and outbound payloads: one record field per property     *)
(* the handlers read or write; Undefined stands for an absent property.    *)
(***************************************************************************)
Fields ==
    {"model", "messages", "max_tokens", "temperature", "top_p", "top_k",
     "presence_penalty", "frequency_penalty", "stream"}

EmptyBody == [f \in Fields |-> Undefined]

\* x !== undefined ? x : dflt, and `if (x === undefined) x = dflt`
OrDefault(v, dflt) == IF v # Undefined THEN v ELSE dflt

\* part_000, lines 70-71
NodeValidatedMaxTokens(b) ==
    LET originalMaxTokens == Or(b.max_tokens, Num(DefaultMaxTokens))
    IN  MathMin(MathMax(Num(1), originalMaxTokens), Num(NodeMaxTokensCeiling))

\* cleanedParams with the caller's `stream` let through instead of forced.
NodeCleanedParams_CallerStream(b) ==
    LET cleanedParams ==
            [model |-> b.model,
             messages |-> b.messages,
             max_tokens |-> NodeValidatedMaxTokens(b),
             temperature |-> OrDefault(b.temperature, DefaultTemperature),
             top_p |-> OrDefault(b.top_p, DefaultTopP),
             top_k |-> OrDefault(b.top_k, DefaultTopK),
             presence_penalty |-> OrDefault(b.presence_penalty, DefaultPresencePenalty),
             frequency_penalty |-> OrDefault(b.frequency_penalty, DefaultFrequencyPenalty),
             stream |-> b.stream]
    IN  [f \in Fields |->
            IF cleanedParams[f] = Null THEN Undefined
            ELSE Stringified(cleanedParams[f])]

\* part_000, lines 77-94 and 110: cleanedParams, its null and undefined
\* properties deleted, as JSON.stringify writes it.
NodeCleanedParams(b) ==
    LET cleanedParams ==
            [model |-> b.model,
             messages |-> b.messages,
             max_tokens |-> NodeValidatedMaxTokens(b),
             temperature |-> OrDefault(b.temperature, DefaultTemperature),
             top_p |-> OrDefault(b.top_p, DefaultTopP),
             top_k |-> OrDefault(b.top_k, DefaultTopK),
             presence_penalty |-> OrDefault(b.presence_penalty, DefaultPresencePenalty),
             frequency_penalty |-> OrDefault(b.frequency_penalty, DefaultFrequencyPenalty),
             stream |-> Bool(TRUE)]
    IN  [f \in Fields |->
            IF cleanedParams[f] = Null THEN Undefined
            ELSE Stringified(cleanedParams[f])]

\* The edge clamp with the Node ceiling in place of its own.
EdgeValidatedMaxTokens_NodeCeiling(b) ==
    LET defaulted == OrDefault(b.max_tokens, Num(DefaultMaxTokens))
    IN  MathMin(MathMax(Num(1), defaulted), Num(NodeMaxTokensCeiling))

\* part_001, lines 98 and 106
EdgeValidatedMaxTokens(b) ==
    LET defaulted == OrDefault(b.max_tokens, Num(DefaultMaxTokens))
    IN  MathMin(MathMax(Num(1), defaulted), Num(EdgeMaxTokensCeiling))

\* requestBody with `stream` set only when the caller gave none.
EdgeRequestBody_DefaultStream(b) ==
    LET requestBody ==
            [b EXCEPT
                !.stream = OrDefault(@, Bool(TRUE)),
                !.max_tokens = EdgeValidatedMaxTokens(b),
                !.top_p = OrDefault(@, DefaultTopP),
                !.top_k = OrDefault(@, DefaultTopK),
                !.presence_penalty = OrDefault(@, DefaultPresencePenalty),
                !.frequency_penalty = OrDefault(@, DefaultFrequencyPenalty),
                !.temperature = OrDefault(@, DefaultTemperature)]
    IN  [f \in Fields |-> Stringified(requestBody[f])]

\* part_001, lines 94-106 and 136: requestBody after the defaults and the
\* clamp, as JSON.stringify writes it.
EdgeRequestBody(b) ==
    LET requestBody ==
            [b EXCEPT
                !.stream = Bool(TRUE),
                !.max_tokens = EdgeValidatedMaxTokens(b),
                !.top_p = OrDefault(@, DefaultTopP),
                !.top_k = OrDefault(@, DefaultTopK),
                !.presence_penalty = OrDefault(@, DefaultPresencePenalty),
                !.frequency_penalty = OrDefault(@, DefaultFrequencyPenalty),
                !.temperature = OrDefault(@, DefaultTemperature)]
    IN  [f \in Fields |-> Stringified(requestBody[f])]

\* src/api/proxy.js, lines 47-51
ProxyValidatedMaxTokens(b) ==
    IF b.max_tokens = Undefined THEN Num(DefaultMaxTokens)
    ELSE MathMin(MathMax(Num(1), b.max_tokens), Num(ProxyMaxTokensCeiling))

\* src/api/proxy.js, lines 46-58 and 95
ProxyRequestBody(b) ==
    LET requestBody ==
            [b EXCEPT
                !.max_tokens = ProxyValidatedMaxTokens(b),
                !.top_p = OrDefault(@, DefaultTopP),
                !.top_k = OrDefault(@, DefaultTopK),
                !.presence_penalty = OrDefault(@, DefaultPresencePenalty),
                !.frequency_penalty = OrDefault(@, DefaultFrequencyPenalty),
                !.temperature = OrDefault(@, DefaultTemperature)]
    IN  [f \in Fields |-> Stringified(requestBody[f])]

\* src/api/api-proxy.js, lines 99-100
ApiProxyValidatedMaxTokens(b) ==
    LET originalMaxTokens == Or(b.max_tokens, Num(DefaultMaxTokens))
    IN  MathMin(MathMax(Num(1), originalMaxTokens), Num(ApiProxyMaxTokensCeiling))

\* src/api/api-proxy.js, lines 99-111 and 129-132
ApiProxyRequestBody(b) ==
    LET requestBody ==
            [b EXCEPT
                !.top_p = OrDefault(@, DefaultTopP),
                !.top_k = OrDefault(@, DefaultTopK),
                !.presence_penalty = OrDefault(@, DefaultPresencePenalty),
                !.frequency_penalty = OrDefault(@, DefaultFrequencyPenalty),
                !.temperature = OrDefault(@, DefaultTemperature)]
        sent == [requestBody EXCEPT !.max_tokens = ApiProxyValidatedMaxTokens(b)]
    IN  [f \in Fields |-> Stringified(sent[f])]

(***************************************************************************)
(* Bounds of the caller bodies tried.                                      *)
(***************************************************************************)
\* max_tokens is tried within this distance of 0, of the default and of
\* each ceiling, and at 500 and 999999.
MaxTokensSpan == 1

Around(c) == {Num(k) : k \in (c - MaxTokensSpan)..(c + MaxTokensSpan)}

IntegerMaxTokens ==
    Around(0) \cup Around(DefaultMaxTokens) \cup Around(EdgeMaxTokensCeiling)
        \cup Around(NodeMaxTokensCeiling) \cup {Num(500), Num(999999)}

MaxTokensInputs == IntegerMaxTokens \cup {Undefined, Null}

NormBodies ==
    [model : {Undefined, Str(1)},
     messages : {Arr(1)},
     max_tokens : MaxTokensInputs,
     temperature : {Undefined, Null, Dec(9, 10)},
     top_p : {Undefined, Null, Dec(5, 10)},
     top_k : {Undefined, Null, Num(7)},
     presence_penalty : {Undefined, Null, Num(1)},
     frequency_penalty : {Undefined, Null, Num(2)},
     stream : {Undefined, Bool(TRUE), Bool(FALSE), Str(2)}]

(***************************************************************************)
(* Text.  A text is a sequence of one-character strings.                   *)
(***************************************************************************)
LF == "\n"

DataPrefix == <<"d", "a", "t", "a", ":">>

\* s.startsWith(prefix)
StartsWith(s, prefix) ==
    Len(s) >= Len(prefix) /\ SubSeq(s, 1, Len(prefix)) = prefix

\* !s.trim(): s holds nothing but white space.
IsBlank(s) == \A i \in 1..Len(s) : s[i] \in {" ", LF, "\t", "\r"}

RECURSIVE Split(_)
\* s.split('\n')
Split(s) ==
    IF \A i \in 1..Len(s) : s[i] # LF THEN <<s>>
    ELSE LET i == CHOOSE k \in 1..Len(s) :
                      s[k] = LF /\ \A m \in 1..(k - 1) : s[m] # LF
         IN  <<SubSeq(s, 1, i - 1)>> \o Split(SubSeq(s, i + 1, Len(s)))

(***************************************************************************)
(* Frames: what one write hands to the downstream sink.                    *)
(*   data   a line of the upstream, `wrapped` when the relay put "data: "  *)
(*          in front of it                                                 *)
(*   chunk  upstream bytes forwarded as they came (Node handler)           *)
(*   error  data: {"error":true,"message":...}; text holds the message's   *)
(*          fixed part                                                     *)
(*   done   data: [DONE]                                                   *)
(***************************************************************************)
DataFrame(line, wrapped) == [kind |-> "data", wrapped |-> wrapped, text |-> line]

ChunkFrame(bytes) == [kind |-> "chunk", wrapped |-> FALSE, text |-> bytes]

ErrorFrame(message) == [kind |-> "error", wrapped |-> TRUE, text |-> <<message>>]

DoneFrame == [kind |-> "done", wrapped |-> TRUE, text |-> <<>>]

\* JSON.stringify of a string: a line terminator inside it is written as the
\* two characters \n.
JsonEscape(s) == [i \in 1..Len(s) |-> IF s[i] = LF THEN "\\n" ELSE s[i]]

\* The error object with its flag given as a string.
ErrorJson_FlagAsString(message) ==
    LET object == [error |-> Str(1),
                   message |-> IF message = "" THEN Str(0) ELSE Str(1)]
    IN  [k \in {"error", "message"} |-> Stringified(object[k])]

\* part_000, lines 140 and 154; part_001, lines 148-152, 210-213, 223-226:
\* JSON.stringify({error: true, message: ...}) for a message text, as the
\* properties it writes.  The message is error.message of an Error, or a
\* template string: a string, which may be empty.
ErrorJson(message) ==
    LET object == [error |-> Bool(TRUE),
                   message |-> IF message = "" THEN Str(0) ELSE Str(1)]
    IN  [k \in {"error", "message"} |-> Stringified(object[k])]

\* The characters a frame puts on the wire.  part_001, lines 191, 194, 201:
\* a line and "\n\n", with "data: " in front when wrapped; lines 148-154,
\* 210-215, 223-228 and part_000, lines 140, 154: "data: ", the JSON text and
\* "\n\n"; part_001, line 205 and part_000, line 134: data: [DONE]; part_000,
\* line 127: the chunk as it came.
FrameBytes(f) ==
    CASE f.kind = "data" ->
             (IF f.wrapped THEN DataPrefix \o <<" ">> ELSE <<>>) \o f.text \o <<LF, LF>>
      [] f.kind = "error" ->
             DataPrefix \o <<" ", "{">> \o JsonEscape(f.text) \o <<"}", LF, LF>>
      [] f.kind = "done" ->
             DataPrefix \o <<" ", "[", "D", "O", "N", "E", "]", LF, LF>>
      [] OTHER -> f.text

\* The line written as it came, whatever it begins with.
EdgeLineFrame_Verbatim(line) == DataFrame(line, FALSE)

\* The line wrapped, whatever it begins with.
EdgeLineFrame_AlwaysWrap(line) == DataFrame(line, TRUE)

\* part_001, lines 183-196: the frame written for one complete line that is
\* not blank.
EdgeLineFrame(line) ==
    IF StartsWith(line, DataPrefix) THEN DataFrame(line, FALSE)
    ELSE DataFrame(line, TRUE)

RECURSIVE EdgeLineFrames_LastFirst(_)
\* The frames of the complete lines, those of later lines put first.
EdgeLineFrames_LastFirst(lines) ==
    IF lines = <<>> THEN <<>>
    ELSE IF IsBlank(Head(lines)) THEN EdgeLineFrames_LastFirst(Tail(lines))
    ELSE EdgeLineFrames_LastFirst(Tail(lines)) \o <<EdgeLineFrame(Head(lines))>>

RECURSIVE EdgeLineFrames(_)
\* part_001, lines 183-196: the frames of the complete lines, blank ones skipped.
EdgeLineFrames(lines) ==
    IF lines = <<>> THEN <<>>
    ELSE IF IsBlank(Head(lines)) THEN EdgeLineFrames(Tail(lines))
    ELSE <<EdgeLineFrame(Head(lines))>> \o EdgeLineFrames(Tail(lines))

\* The read step with the carry-over left out of the working buffer.
EdgeOnRead_DropCarry(carry, chunk) ==
    LET lines == Split(chunk)
    IN  [carry |-> lines[Len(lines)],
         frames |-> EdgeLineFrames(SubSeq(lines, 1, Len(lines) - 1))]

\* The read step with the last element of the split written like the lines
\* before it, and nothing carried over.
EdgeOnRead_EmitsLast(carry, chunk) ==
    LET textChunk == carry \o chunk
        lines == Split(textChunk)
    IN  [carry |-> <<>>,
         frames |-> EdgeLineFrames(lines)]

\* part_001, lines 174-196: one read of the upstream; the new carry-over and
\* the frames to write.
EdgeOnRead(carry, chunk) ==
    LET textChunk == carry \o chunk
        lines == Split(textChunk)
    IN  [carry |-> lines[Len(lines)],
         frames |-> EdgeLineFrames(SubSeq(lines, 1, Len(lines) - 1))]

\* part_000, line 127: res.write(chunk).  The response body is a stream of
\* bytes: chunks written one after the other are one run of bytes.
NodeWrite(written, bytes) ==
    IF written # <<>> /\ written[Len(written)].kind = "chunk"
    THEN [written EXCEPT ![Len(written)].text = @ \o bytes]
    ELSE Append(written, ChunkFrame(bytes))

(***************************************************************************)
(* Bounds of the requests and upstream bodies tried.                       *)
(***************************************************************************)
\* An upstream body is made of at most this many pieces of Tokens; a read
\* may end after any character of it.
MaxTokens == 3

Tokens == {DataPrefix, <<"x">>, <<" ">>, <<LF>>, <<"y", LF>>}

RECURSIVE Flatten(_)
Flatten(ts) == IF ts = <<>> THEN <<>> ELSE Head(ts) \o Flatten(Tail(ts))

Texts == {Flatten(ts) : ts \in UNION {[1..k -> Tokens] : k \in 0..MaxTokens}}

Methods == {"OPTIONS", "GET", "POST"}

OnlyMessages == [EmptyBody EXCEPT !.messages = Arr(1)]

OnlyModel == [EmptyBody EXCEPT !.model = Str(1)]

ModelAndMessages == [EmptyBody EXCEPT !.model = Str(1), !.messages = Arr(1)]

\* A request body: JSON that parses to `json`, text that does not parse, or
\* no body at all.
RequestBodies ==
    {[parse |-> "ok", json |-> ModelAndMessages],
     [parse |-> "ok", json |-> OnlyMessages],
     [parse |-> "ok", json |-> OnlyModel],
     [parse |-> "malformed", json |-> EmptyBody],
     [parse |-> "missing", json |-> EmptyBody]}

UpstreamErrorStatuses == {429, 500}

(***************************************************************************)
(* Spec: one request to a streaming handler.                               *)
(***************************************************************************)
VARIABLES
    handler,          \* "node" (part_000) or "edge" (part_001)
    method,           \* the request's method
    apiKey,           \* FIREWORKS_API_KEY is set
    body,             \* the request's body
    pc,               \* where the handler, or its background task, stands
    status,           \* the response's status; 0: none yet
    ctype,            \* the response's Content-Type: "none", "json", "event-stream"
    jsonSent,         \* JSON bodies sent as the response
    payload,          \* the body of the outbound request
    fetchCalls,       \* calls of the upstream
    upStatus,         \* the upstream's status; 0: no answer
    upText,           \* the body the upstream produces
    upPos,            \* how much of it the handler has received
    upState,          \* "none", "pending", "open", "ended", "errored",
                      \* "destroyed", "refused", "failed", "aborted"
    incompleteChunk,  \* edge: the carry-over between reads
    toWrite,          \* edge: frames of the current read not yet written
    pendingThrow,     \* edge: an exception is passing through `finally`
    sink,             \* the frames the downstream sink has accepted
    closeCalls,       \* calls of res.end() / writer.close()
    sinkClosed,       \* the sink is closed
    clientGone,       \* the client's connection has closed
    closeListener,    \* node: req.on('close') is registered
    upstreamReleased, \* apiStream.destroy() was called
    unhandled,        \* edge: the background task ended in a rejection
    failure,          \* the upstream failure met: "none", "fetch", "status", "stream"
    closeSnap,        \* where the session stood when the client's connection closed
    midLineCut,       \* edge: some read ended inside a line
    timer,            \* proxies: the 120 s timeout: "none", "armed", "cleared", "fired"
    aborted,          \* proxies: controller.abort() was called
    elapsedAt         \* proxies: where the handler stood when 120 s had passed
                      \* since it set the timer; "none": they have not passed

reqVars == <<handler, method, apiKey, body>>

respVars == <<status, ctype, jsonSent>>

upVars == <<upStatus, upText, upPos, upState>>

edgeVars == <<incompleteChunk, toWrite, pendingThrow, unhandled, midLineCut>>

sinkVars == <<sink, closeCalls, sinkClosed>>

clientVars == <<clientGone, closeListener, upstreamReleased, closeSnap>>

timerVars == <<timer, aborted, elapsedAt>>

relayVars ==
    <<reqVars, pc, respVars, payload, fetchCalls, upVars, edgeVars, sinkVars,
      clientVars, failure, timerVars>>

NoSnap == [pc |-> "none", sinkLen |-> 0, upPos |-> 0, upOpen |-> FALSE]

RelayIdle ==
    /\ pc = "start"
    /\ status = 0 /\ ctype = "none" /\ jsonSent = 0
    /\ payload = EmptyBody /\ fetchCalls = 0
    /\ upStatus = 0 /\ upText = <<>> /\ upPos = 0 /\ upState = "none"
    /\ incompleteChunk = <<>> /\ toWrite = <<>> /\ pendingThrow = FALSE
    /\ unhandled = FALSE /\ midLineCut = FALSE
    /\ sink = <<>> /\ closeCalls = 0 /\ sinkClosed = FALSE
    /\ clientGone = FALSE /\ closeListener = FALSE /\ upstreamReleased = FALSE
    /\ closeSnap = NoSnap
    /\ failure = "none"
    /\ timer = "none" /\ aborted = FALSE /\ elapsedAt = "none"

RelayInit ==
    /\ handler \in {"node", "edge"}
    /\ method \in Methods
    /\ apiKey \in BOOLEAN
    /\ body \in RequestBodies
    /\ RelayIdle

(***************************************************************************)
(* SpecNorm: a caller body, and the payload a handler sends upstream for   *)
(* it.                                                                     *)
(***************************************************************************)
VARIABLES
    nBody,      \* the caller's parsed request body
    nHandler,   \* the handler that normalized it: "none" before
    nPayload    \* the body of the outbound request

normVars == <<nBody, nHandler, nPayload>>

(***************************************************************************)
(* SpecDb: the connection cache of the status handler                      *)
(* (src/unnamed/part_002).  The cache is state of the module: every call   *)
(* of connectToDatabase reads and writes it, and calls overlap, each one   *)
(* standing at one of its awaits.  The handler itself leaves a call        *)
(* pending when its 5 s timer wins the race of line 107.                   *)
(*                                                                         *)
(* A client is named by the order of its creation, and the db it gives by  *)
(* the same number; 0 is null.                                             *)
(***************************************************************************)
CONNECTION_COOLDOWN == 30000

\* Calls of connectToDatabase that may be pending at once.
MaxCalls == 2

\* MongoClients created in one run.
MaxClients == 3

\* The clock moves by this many milliseconds, this many times.
ClockStep == 15000

MaxTicks == 3

Calls == 1..MaxCalls

VARIABLES
    clock,                  \* Date.now()
    lastConnectionAttempt,
    cachedClient,
    cachedDb,
    clientState,            \* of each MongoClient created: "connecting", "open",
                            \* "closing", "closed", "close-failed"
    connPc,                 \* where each call stands
    connNow,                \* its `now`
    connSince,              \* lastConnectionAttempt as line 14 read it
    connClient,             \* the client it awaits: cachedClient, then `client`
    connResult              \* the db it returned

cacheVars == <<lastConnectionAttempt, cachedClient, cachedDb>>

callVars == <<connPc, connNow, connSince, connClient, connResult>>

dbVars == <<clock, cacheVars, clientState, callVars>>

(***************************************************************************)
(* SpecRag: one request to the lookup handler (src/api/rag.js), which      *)
(* makes its own MongoClient for every request.                            *)
(***************************************************************************)
VARIABLES
    ragMethod,      \* req.method
    ragBody,        \* req.body
    ragEnv,         \* MONGODB_URI, MONGODB_DB_NAME, MONGODB_COLLECTION are set
    ragPc,          \* where the handler stands
    ragClient,      \* the handler's MongoClient: "none", "connecting",
                    \* "failed", "open", "closing", "closed", "close-failed"
    ragSearch,      \* the queries run: "vector", "text", then "regex"
    ragResults,     \* `results`: "undefined", "empty", "some"
    ragStatus,      \* the response's status; 0: none yet
    ragResponses    \* responses sent

ragVars ==
    <<ragMethod, ragBody, ragEnv, ragPc, ragClient, ragSearch, ragResults,
      ragStatus, ragResponses>>

vars == <<relayVars, normVars, dbVars, ragVars>>

\* req.body: absent, text that does not parse, or an object with its query
\* ("none": absent or falsy; "text": a string; "other": a truthy value that
\* is no string) and with or without collectionName.
RagBodies ==
    {[parse |-> "missing", query |-> "none", collectionName |-> FALSE],
     [parse |-> "malformed", query |-> "none", collectionName |-> FALSE]}
    \cup [parse : {"ok"}, query : {"none", "text", "other"},
          collectionName : BOOLEAN]

RagEnvs == [uri : BOOLEAN, dbName : BOOLEAN, collection : BOOLEAN]

\* The handler has not been entered.
RagFresh ==
    /\ ragPc = "start"
    /\ ragClient = "none"
    /\ ragSearch = <<>>
    /\ ragResults = "undefined"
    /\ ragStatus = 0
    /\ ragResponses = 0

\* No request to the lookup handler.
RagIdle ==
    /\ ragMethod = "OPTIONS"
    /\ ragBody = [parse |-> "missing", query |-> "none", collectionName |-> FALSE]
    /\ ragEnv = [uri |-> FALSE, dbName |-> FALSE, collection |-> FALSE]
    /\ RagFresh

RagInit ==
    /\ ragMethod \in Methods
    /\ ragBody \in RagBodies
    /\ ragEnv \in RagEnvs
    /\ RagFresh

\* part_002, lines 5-7: the module is loaded, no call has been made.  The
\* clock is past the first cooldown, as Date.now() is.
DbIdle ==
    /\ clock = CONNECTION_COOLDOWN
    /\ lastConnectionAttempt = 0
    /\ cachedClient = 0 /\ cachedDb = 0
    /\ clientState = <<>>
    /\ connPc = [c \in Calls |-> "idle"]
    /\ connNow = [c \in Calls |-> 0]
    /\ connSince = [c \in Calls |-> 0]
    /\ connClient = [c \in Calls |-> 0]
    /\ connResult = [c \in Calls |-> 0]

NormIdle == nBody = EmptyBody /\ nHandler = "none" /\ nPayload = EmptyBody

NormInit == nBody \in NormBodies /\ nHandler = "none" /\ nPayload = EmptyBody

\* part_000: the streaming handler builds its outbound body.
NormalizeNode ==
    /\ nHandler = "none"
    /\ nHandler' = "node"
    /\ nPayload' = NodeCleanedParams(nBody)
    /\ UNCHANGED <<nBody, relayVars, dbVars,
                   ragVars>>

\* part_001: the edge handler answers 400 for a falsy model (lines 78-92)
\* and otherwise builds its outbound body.
NormalizeEdge ==
    /\ nHandler = "none"
    /\ nHandler' = IF IsFalsy(nBody.model) THEN "edge-rejected" ELSE "edge"
    /\ nPayload' = IF IsFalsy(nBody.model) THEN EmptyBody ELSE EdgeRequestBody(nBody)
    /\ UNCHANGED <<nBody, relayVars, dbVars,
                   ragVars>>

\* src/api/proxy.js
NormalizeProxy ==
    /\ nHandler = "none"
    /\ nHandler' = "proxy"
    /\ nPayload' = ProxyRequestBody(nBody)
    /\ UNCHANGED <<nBody, relayVars, dbVars,
                   ragVars>>

\* src/api/api-proxy.js
NormalizeApiProxy ==
    /\ nHandler = "none"
    /\ nHandler' = "api-proxy"
    /\ nPayload' = ApiProxyRequestBody(nBody)
    /\ UNCHANGED <<nBody, relayVars, dbVars,
                   ragVars>>

\* A handler is sent, as a caller's body, the payload it produced: the body
\* is now that payload, and the handler normalizes it as it does any body.
RenormalizeNode ==
    /\ nHandler = "node"
    /\ nHandler' = "node-again"
    /\ nBody' = nPayload
    /\ nPayload' = NodeCleanedParams(nPayload)
    /\ UNCHANGED <<relayVars, dbVars,
                   ragVars>>

RenormalizeEdge ==
    /\ nHandler = "edge"
    /\ nHandler' = "edge-again"
    /\ nBody' = nPayload
    /\ nPayload' = EdgeRequestBody(nPayload)
    /\ UNCHANGED <<relayVars, dbVars,
                   ragVars>>

RenormalizeProxy ==
    /\ nHandler = "proxy"
    /\ nHandler' = "proxy-again"
    /\ nBody' = nPayload
    /\ nPayload' = ProxyRequestBody(nPayload)
    /\ UNCHANGED <<relayVars, dbVars,
                   ragVars>>

RenormalizeApiProxy ==
    /\ nHandler = "api-proxy"
    /\ nHandler' = "api-proxy-again"
    /\ nBody' = nPayload
    /\ nPayload' = ApiProxyRequestBody(nPayload)
    /\ UNCHANGED <<relayVars, dbVars,
                   ragVars>>

NormNext ==
    \/ NormalizeNode \/ NormalizeEdge \/ NormalizeProxy \/ NormalizeApiProxy
    \/ RenormalizeNode \/ RenormalizeEdge \/ RenormalizeProxy \/ RenormalizeApiProxy

\* No request is in flight in a streaming handler while the normalization is
\* looked at on its own.
SpecNormInit ==
    /\ NormInit
    /\ handler = "node" /\ method = "POST" /\ apiKey = TRUE
    /\ body = [parse |-> "ok", json |-> EmptyBody]
    /\ RelayIdle
    /\ DbIdle
    /\ RagIdle

SpecNorm == SpecNormInit /\ [][NormNext]_vars

(***************************************************************************)
(* The client.                                                             *)
(***************************************************************************)
\* The client's connection closes; this happens once, at any moment, also
\* after the response has ended.  In the Node handler the listener of
\* part_000, lines 146-150 runs if it is registered by then; the edge handler
\* has no listener, and from now on its writes and its close are rejected.
ClientClose ==
    /\ ~clientGone
    /\ clientGone' = TRUE
    /\ closeSnap' = [pc |-> pc, sinkLen |-> Len(sink), upPos |-> upPos,
                     upOpen |-> upState = "open"]
    /\ IF handler = "node" /\ closeListener
       THEN /\ upstreamReleased' = TRUE
            /\ upState' = IF upState = "open" THEN "destroyed" ELSE upState
            /\ closeCalls' = closeCalls + 1
            /\ sinkClosed' = TRUE
            /\ pc' = "done"
       ELSE UNCHANGED <<upstreamReleased, upState, closeCalls, sinkClosed, pc>>
    /\ UNCHANGED <<reqVars, respVars, payload, fetchCalls, upStatus, upText, upPos,
                   edgeVars, sink, closeListener, failure, normVars, timerVars,
                   dbVars, ragVars>>

(***************************************************************************)
(* The Node streaming handler, part_000.                                   *)
(***************************************************************************)
\* The response sent with status 200 whatever the status asked for.
Respond_Status200(st, ct) ==
    /\ status' = 200
    /\ ctype' = ct
    /\ jsonSent' = IF ct = "json" THEN jsonSent + 1 ELSE jsonSent
    /\ pc' = "done"

\* The response sent with the stream's Content-Type.
Respond_AsEventStream(st, ct) ==
    /\ status' = st
    /\ ctype' = "event-stream"
    /\ jsonSent' = jsonSent
    /\ pc' = "done"

\* res.status(st).json(...) or, with ct = "none", res.status(st).end()
Respond(st, ct) ==
    /\ status' = st
    /\ ctype' = ct
    /\ jsonSent' = IF ct = "json" THEN jsonSent + 1 ELSE jsonSent
    /\ pc' = "done"

\* lines 152-157: the catch around the upstream call
NodeInnerCatch(message) ==
    /\ sink' = sink \o <<ErrorFrame(message), DoneFrame>>
    /\ closeCalls' = closeCalls + 1
    /\ sinkClosed' = TRUE
    /\ UNCHANGED respVars

\* lines 4-115: the handler up to its call of the upstream
NodeStart ==
    /\ handler = "node" /\ pc = "start"
    /\ IF method = "OPTIONS" THEN
            /\ Respond(204, "none")
            /\ closeCalls' = closeCalls + 1 /\ sinkClosed' = TRUE
            /\ UNCHANGED <<payload, fetchCalls, upState>>
       ELSE IF method # "POST" THEN
            /\ Respond(405, "json")
            /\ UNCHANGED <<payload, fetchCalls, upState, closeCalls, sinkClosed>>
       ELSE IF ~apiKey THEN
            /\ Respond(500, "json")
            /\ UNCHANGED <<payload, fetchCalls, upState, closeCalls, sinkClosed>>
       ELSE IF body.parse = "malformed" THEN
            /\ Respond(400, "json")
            /\ UNCHANGED <<payload, fetchCalls, upState, closeCalls, sinkClosed>>
       ELSE IF body.parse = "missing" THEN
            \* requestBody.model of undefined throws: the outer catch
            /\ Respond(500, "json")
            /\ UNCHANGED <<payload, fetchCalls, upState, closeCalls, sinkClosed>>
       ELSE /\ payload' = NodeCleanedParams(body.json)
            /\ status' = 200 /\ ctype' = "event-stream"
            /\ fetchCalls' = fetchCalls + 1
            /\ upState' = "pending"
            /\ pc' = "fetching"
            /\ UNCHANGED <<jsonSent, closeCalls, sinkClosed>>
    /\ UNCHANGED <<reqVars, upStatus, upText, upPos, edgeVars, sink, clientVars,
                   failure, normVars, timerVars,
                   dbVars, ragVars>>

\* lines 115-150: the upstream answers 2xx; the four listeners are registered
NodeFetchOk ==
    /\ handler = "node" /\ pc = "fetching"
    /\ \E t \in Texts : upText' = t
    /\ upStatus' = 200
    /\ upState' = "open"
    /\ closeListener' = TRUE
    /\ pc' = "streaming"
    /\ UNCHANGED <<reqVars, respVars, payload, fetchCalls, upPos, edgeVars, sinkVars,
                   clientGone, upstreamReleased, closeSnap, failure, normVars,
                   timerVars, dbVars,
                   ragVars>>

\* lines 117-119, 152-157: the upstream answers with another status
NodeFetchNotOk ==
    /\ handler = "node" /\ pc = "fetching"
    /\ \E st \in UpstreamErrorStatuses : upStatus' = st
    /\ upState' = "refused"
    /\ failure' = "status"
    /\ NodeInnerCatch("API Error")
    /\ pc' = "done"
    /\ UNCHANGED <<reqVars, payload, fetchCalls, upText, upPos, edgeVars, clientVars,
                   normVars, timerVars,
                   dbVars, ragVars>>

\* lines 115, 152-157: the call of the upstream fails
NodeFetchReject ==
    /\ handler = "node" /\ pc = "fetching"
    /\ upState' = "failed"
    /\ failure' = "fetch"
    /\ NodeInnerCatch("fetch failed")
    /\ pc' = "done"
    /\ UNCHANGED <<reqVars, payload, fetchCalls, upStatus, upText, upPos, edgeVars,
                   clientVars, normVars, timerVars,
                   dbVars, ragVars>>

\* lines 125-130: apiStream 'data'
NodeOnData ==
    /\ handler = "node" /\ pc = "streaming" /\ upState = "open"
    /\ \E k \in 1..(Len(upText) - upPos) :
          /\ sink' = NodeWrite(sink, SubSeq(upText, upPos + 1, upPos + k))
          /\ upPos' = upPos + k
    /\ UNCHANGED <<reqVars, pc, respVars, payload, fetchCalls, upStatus, upText,
                   upState, edgeVars, closeCalls, sinkClosed, clientVars, failure,
                   normVars, timerVars,
                   dbVars, ragVars>>

\* The 'end' callback with the stream left as it was: its events still come.
NodeOnEnd_StillOpen ==
    /\ handler = "node" /\ pc = "streaming" /\ upState = "open"
    /\ upPos = Len(upText)
    /\ sink' = Append(sink, DoneFrame)
    /\ closeCalls' = closeCalls + 1
    /\ sinkClosed' = TRUE
    /\ UNCHANGED <<reqVars, pc, respVars, payload, fetchCalls, upVars, edgeVars,
                   clientVars, failure, normVars, timerVars,
                   dbVars, ragVars>>

\* lines 132-136: apiStream 'end'
NodeOnEnd ==
    /\ handler = "node" /\ pc = "streaming" /\ upState = "open"
    /\ upPos = Len(upText)
    /\ sink' = Append(sink, DoneFrame)
    /\ closeCalls' = closeCalls + 1
    /\ sinkClosed' = TRUE
    /\ upState' = "ended"
    /\ pc' = "done"
    /\ UNCHANGED <<reqVars, respVars, payload, fetchCalls, upStatus, upText, upPos,
                   edgeVars, clientVars, failure, normVars, timerVars,
                   dbVars, ragVars>>

\* lines 138-143: apiStream 'error'
NodeOnError ==
    /\ handler = "node" /\ pc = "streaming" /\ upState = "open"
    /\ sink' = sink \o <<ErrorFrame("stream error"), DoneFrame>>
    /\ closeCalls' = closeCalls + 1
    /\ sinkClosed' = TRUE
    /\ upState' = "errored"
    /\ failure' = "stream"
    /\ pc' = "done"
    /\ UNCHANGED <<reqVars, respVars, payload, fetchCalls, upStatus, upText, upPos,
                   edgeVars, clientVars, normVars, timerVars,
                   dbVars, ragVars>>

(***************************************************************************)
(* The edge streaming handler, part_001, lines 8-251.                      *)
(***************************************************************************)
\* writer.write and writer.close resolve while the client is connected and
\* the writer is not closed, and are rejected otherwise.
SinkAccepts == ~clientGone /\ ~sinkClosed

\* lines 8-137, 233: the handler up to the Response it returns, and its
\* background task up to the call of the upstream
EdgeStart ==
    /\ handler = "edge" /\ pc = "start"
    /\ IF method = "OPTIONS" THEN
            /\ Respond(204, "none")
            /\ UNCHANGED <<payload, fetchCalls, upState>>
       ELSE IF method # "POST" THEN
            /\ Respond(405, "json")
            /\ UNCHANGED <<payload, fetchCalls, upState>>
       ELSE IF ~apiKey THEN
            /\ Respond(500, "json")
            /\ UNCHANGED <<payload, fetchCalls, upState>>
       ELSE IF body.parse # "ok" THEN
            /\ Respond(400, "json")
            /\ UNCHANGED <<payload, fetchCalls, upState>>
       ELSE IF IsFalsy(body.json.model) THEN
            /\ Respond(400, "json")
            /\ UNCHANGED <<payload, fetchCalls, upState>>
       ELSE /\ payload' = EdgeRequestBody(body.json)
            /\ status' = 200 /\ ctype' = "event-stream"
            /\ fetchCalls' = fetchCalls + 1
            /\ upState' = "pending"
            /\ pc' = "fetching"
            /\ UNCHANGED jsonSent
    /\ UNCHANGED <<reqVars, upStatus, upText, upPos, edgeVars, sinkVars, clientVars,
                   failure, normVars, timerVars,
                   dbVars, ragVars>>

\* lines 130-163: the upstream answers 2xx
EdgeFetchOk ==
    /\ handler = "edge" /\ pc = "fetching"
    /\ \E t \in Texts : upText' = t
    /\ upStatus' = 200
    /\ upState' = "open"
    /\ pc' = "reading"
    /\ UNCHANGED <<reqVars, respVars, payload, fetchCalls, upPos, edgeVars, sinkVars,
                   clientVars, failure, normVars, timerVars,
                   dbVars, ragVars>>

\* lines 139-152: the upstream answers with another status
EdgeFetchNotOk ==
    /\ handler = "edge" /\ pc = "fetching"
    /\ \E st \in UpstreamErrorStatuses : upStatus' = st
    /\ upState' = "refused"
    /\ failure' = "status"
    /\ pc' = "notok-write"
    /\ UNCHANGED <<reqVars, respVars, payload, fetchCalls, upText, upPos, edgeVars,
                   sinkVars, clientVars, normVars, timerVars,
                   dbVars, ragVars>>

\* lines 130, 219: the call of the upstream fails
EdgeFetchReject ==
    /\ handler = "edge" /\ pc = "fetching"
    /\ upState' = "failed"
    /\ failure' = "fetch"
    /\ pc' = "outer-write"
    /\ UNCHANGED <<reqVars, respVars, payload, fetchCalls, upStatus, upText, upPos,
                   edgeVars, sinkVars, clientVars, normVars, timerVars,
                   dbVars, ragVars>>

\* line 154
EdgeNotOkWrite ==
    /\ handler = "edge" /\ pc = "notok-write"
    /\ IF SinkAccepts
       THEN sink' = Append(sink, ErrorFrame("API Error")) /\ pc' = "notok-close"
       ELSE sink' = sink /\ pc' = "outer-write"
    /\ UNCHANGED <<reqVars, respVars, payload, fetchCalls, upVars, edgeVars,
                   closeCalls, sinkClosed, clientVars, failure, normVars,
                   timerVars, dbVars,
                   ragVars>>

\* lines 155-156
EdgeNotOkClose ==
    /\ handler = "edge" /\ pc = "notok-close"
    /\ closeCalls' = closeCalls + 1
    /\ IF SinkAccepts
       THEN sinkClosed' = TRUE /\ pc' = "done"
       ELSE sinkClosed' = sinkClosed /\ pc' = "outer-write"
    /\ UNCHANGED <<reqVars, respVars, payload, fetchCalls, upVars, edgeVars, sink,
                   clientVars, failure, normVars, timerVars,
                   dbVars, ragVars>>

\* lines 167-196: reader.read() gives bytes; the complete lines are split off
EdgeReadChunk ==
    /\ handler = "edge" /\ pc = "reading" /\ upState = "open"
    /\ \E k \in 1..(Len(upText) - upPos) :
          LET r == EdgeOnRead(incompleteChunk, SubSeq(upText, upPos + 1, upPos + k))
          IN  /\ upPos' = upPos + k
              /\ incompleteChunk' = r.carry
              /\ toWrite' = r.frames
              /\ midLineCut' = (midLineCut \/ (r.carry # <<>> /\ upPos + k < Len(upText)))
              /\ pc' = IF r.frames = <<>> THEN "reading" ELSE "writing"
    /\ UNCHANGED <<reqVars, respVars, payload, fetchCalls, upStatus, upText, upState,
                   pendingThrow, unhandled, sinkVars, clientVars, failure, normVars,
                   timerVars, dbVars,
                   ragVars>>

\* lines 183-196: one write of the loop over the complete lines
EdgeWriteLine ==
    /\ handler = "edge" /\ pc = "writing"
    /\ IF SinkAccepts
       THEN /\ sink' = Append(sink, Head(toWrite))
            /\ toWrite' = Tail(toWrite)
            /\ pc' = IF Tail(toWrite) = <<>> THEN "reading" ELSE "writing"
       ELSE /\ sink' = sink
            /\ toWrite' = <<>>
            /\ pc' = "catch-write"
    /\ UNCHANGED <<reqVars, respVars, payload, fetchCalls, upVars, incompleteChunk,
                   pendingThrow, unhandled, midLineCut, closeCalls, sinkClosed,
                   clientVars, failure, normVars, timerVars,
                   dbVars, ragVars>>

\* The end of the upstream's data with the carry-over left unwritten.
EdgeReadDone_NoFlush ==
    /\ handler = "edge" /\ pc = "reading" /\ upState = "open"
    /\ upPos = Len(upText)
    /\ upState' = "ended"
    /\ pc' = "done-write"
    /\ UNCHANGED <<reqVars, respVars, payload, fetchCalls, upStatus, upText, upPos,
                   edgeVars, sinkVars, clientVars, failure, normVars, timerVars,
                   dbVars, ragVars>>

\* lines 167-171, 200: reader.read() reports the end of the upstream's data
EdgeReadDone ==
    /\ handler = "edge" /\ pc = "reading" /\ upState = "open"
    /\ upPos = Len(upText)
    /\ upState' = "ended"
    /\ pc' = IF incompleteChunk # <<>> THEN "flush-write" ELSE "done-write"
    /\ UNCHANGED <<reqVars, respVars, payload, fetchCalls, upStatus, upText, upPos,
                   edgeVars, sinkVars, clientVars, failure, normVars,
                   timerVars, dbVars,
                   ragVars>>

\* lines 167, 206: reader.read() is rejected
EdgeReadError ==
    /\ handler = "edge" /\ pc = "reading" /\ upState = "open"
    /\ upState' = "errored"
    /\ failure' = "stream"
    /\ pc' = "catch-write"
    /\ UNCHANGED <<reqVars, respVars, payload, fetchCalls, upStatus, upText, upPos,
                   edgeVars, sinkVars, clientVars, normVars, timerVars,
                   dbVars, ragVars>>

\* lines 200-202: the carry-over left at the end of the data
EdgeFlushWrite ==
    /\ handler = "edge" /\ pc = "flush-write"
    /\ IF SinkAccepts
       THEN sink' = Append(sink, DataFrame(incompleteChunk, TRUE)) /\ pc' = "done-write"
       ELSE sink' = sink /\ pc' = "catch-write"
    /\ UNCHANGED <<reqVars, respVars, payload, fetchCalls, upVars, edgeVars,
                   closeCalls, sinkClosed, clientVars, failure, normVars,
                   timerVars, dbVars,
                   ragVars>>

\* line 205
EdgeDoneWrite ==
    /\ handler = "edge" /\ pc = "done-write"
    /\ IF SinkAccepts
       THEN sink' = Append(sink, DoneFrame) /\ pc' = "finally-close"
       ELSE sink' = sink /\ pc' = "catch-write"
    /\ UNCHANGED <<reqVars, respVars, payload, fetchCalls, upVars, edgeVars,
                   closeCalls, sinkClosed, clientVars, failure, normVars,
                   timerVars, dbVars,
                   ragVars>>

\* lines 206-215: the catch of the read loop; a write rejected here leaves
\* the catch as an exception
EdgeCatchWrite ==
    /\ handler = "edge" /\ pc = "catch-write"
    /\ IF SinkAccepts
       THEN /\ sink' = Append(sink, ErrorFrame("Stream processing error"))
            /\ pendingThrow' = pendingThrow
       ELSE /\ sink' = sink
            /\ pendingThrow' = TRUE
    /\ pc' = "finally-close"
    /\ UNCHANGED <<reqVars, respVars, payload, fetchCalls, upVars, incompleteChunk,
                   toWrite, unhandled, midLineCut, closeCalls, sinkClosed, clientVars,
                   failure, normVars, timerVars,
                   dbVars, ragVars>>

\* lines 216-218
EdgeFinallyClose ==
    /\ handler = "edge" /\ pc = "finally-close"
    /\ closeCalls' = closeCalls + 1
    /\ IF SinkAccepts
       THEN /\ sinkClosed' = TRUE
            /\ pc' = IF pendingThrow THEN "outer-write" ELSE "done"
       ELSE /\ sinkClosed' = sinkClosed
            /\ pc' = "outer-write"
    /\ pendingThrow' = FALSE
    /\ UNCHANGED <<reqVars, respVars, payload, fetchCalls, upVars, incompleteChunk,
                   toWrite, unhandled, midLineCut, sink, clientVars, failure, normVars,
                   timerVars, dbVars,
                   ragVars>>

\* lines 219-228: the outer catch; a write rejected here ends the task
EdgeOuterWrite ==
    /\ handler = "edge" /\ pc = "outer-write"
    /\ IF SinkAccepts
       THEN /\ sink' = Append(sink, ErrorFrame("Request failed"))
            /\ pc' = "outer-close"
            /\ unhandled' = unhandled
       ELSE /\ sink' = sink
            /\ pc' = "done"
            /\ unhandled' = TRUE
    /\ UNCHANGED <<reqVars, respVars, payload, fetchCalls, upVars, incompleteChunk,
                   toWrite, pendingThrow, midLineCut, closeCalls, sinkClosed,
                   clientVars, failure, normVars, timerVars,
                   dbVars, ragVars>>

\* line 229
EdgeOuterClose ==
    /\ handler = "edge" /\ pc = "outer-close"
    /\ closeCalls' = closeCalls + 1
    /\ sinkClosed' = SinkAccepts
    /\ unhandled' = ~SinkAccepts
    /\ pc' = "done"
    /\ UNCHANGED <<reqVars, respVars, payload, fetchCalls, upVars, incompleteChunk,
                   toWrite, pendingThrow, midLineCut, sink, clientVars, failure,
                   normVars, timerVars,
                   dbVars, ragVars>>

(***************************************************************************)
(* The non-streaming proxies, src/api/proxy.js and src/api/api-proxy.js.    *)
(* pc is "fetching" while fetch is awaited, "body" while response.json()   *)
(* is, and "error-body" while response.text() is.                          *)
(***************************************************************************)
Proxies == {"proxy", "api-proxy"}

\* The part of every proxy step that leaves the relays' state alone.
ProxyFrame ==
    UNCHANGED <<reqVars, upText, upPos, edgeVars, sinkVars, clientVars,
                normVars, dbVars,
                   ragVars>>

\* proxy.js, lines 4-97; api-proxy.js, lines 2-134: the handler up to its
\* call of the upstream.  No body at all: in proxy.js requestBody.model
\* throws inside the try of line 41, in api-proxy.js request.json() is
\* rejected.
ProxyStart ==
    /\ handler \in Proxies /\ pc = "start"
    /\ IF method = "OPTIONS" THEN
            /\ Respond(204, "none")
            /\ UNCHANGED <<payload, fetchCalls, upState, timer>>
       ELSE IF method # "POST" THEN
            /\ Respond(405, "json")
            /\ UNCHANGED <<payload, fetchCalls, upState, timer>>
       ELSE IF ~apiKey THEN
            /\ Respond(500, "json")
            /\ UNCHANGED <<payload, fetchCalls, upState, timer>>
       ELSE IF body.parse # "ok" THEN
            /\ Respond(400, "json")
            /\ UNCHANGED <<payload, fetchCalls, upState, timer>>
       ELSE /\ payload' = IF handler = "proxy" THEN ProxyRequestBody(body.json)
                          ELSE ApiProxyRequestBody(body.json)
            /\ timer' = "armed"
            /\ fetchCalls' = fetchCalls + 1
            /\ upState' = "pending"
            /\ pc' = "fetching"
            /\ UNCHANGED respVars
    /\ UNCHANGED <<upStatus, failure, aborted, elapsedAt>>
    /\ ProxyFrame

\* 120 s have passed since the handler set its timer, and the handler has
\* not answered yet.  The callback of setTimeout (proxy.js, lines 81-84;
\* api-proxy.js, lines 117-120) runs unless clearTimeout was called: it
\* aborts the fetch, which is still pending then.
BudgetElapses ==
    /\ handler \in Proxies /\ pc \in {"fetching", "body", "error-body"}
    /\ elapsedAt = "none"
    /\ elapsedAt' = pc
    /\ IF timer = "armed"
       THEN timer' = "fired" /\ aborted' = TRUE /\ upState' = "aborted"
       ELSE UNCHANGED <<timer, aborted, upState>>
    /\ UNCHANGED <<pc, respVars, payload, fetchCalls, upStatus, failure>>
    /\ ProxyFrame

\* proxy.js, lines 89-100; api-proxy.js, lines 123-137: fetch resolves with
\* a 2xx response, of which the body is still to come; clearTimeout.
ProxyFetchOk ==
    /\ handler \in Proxies /\ pc = "fetching" /\ upState = "pending"
    /\ timer' = "cleared"
    /\ upStatus' = 200
    /\ upState' = "open"
    /\ pc' = "body"
    /\ UNCHANGED <<respVars, payload, fetchCalls, failure, aborted, elapsedAt>>
    /\ ProxyFrame

\* proxy.js, lines 89-108; api-proxy.js, lines 123-148: fetch resolves with
\* another status; clearTimeout.
ProxyFetchNotOk ==
    /\ handler \in Proxies /\ pc = "fetching" /\ upState = "pending"
    /\ timer' = "cleared"
    /\ \E st \in UpstreamErrorStatuses : upStatus' = st
    /\ upState' = "refused"
    /\ failure' = "status"
    /\ pc' = "error-body"
    /\ UNCHANGED <<respVars, payload, fetchCalls, aborted, elapsedAt>>
    /\ ProxyFrame

\* proxy.js, lines 137-161; api-proxy.js, lines 193-228: fetch is rejected
\* for another reason than the abort; clearTimeout, 500.
ProxyFetchReject ==
    /\ handler \in Proxies /\ pc = "fetching" /\ upState = "pending"
    /\ timer' = "cleared"
    /\ upState' = "failed"
    /\ failure' = "fetch"
    /\ Respond(500, "json")
    /\ UNCHANGED <<payload, fetchCalls, upStatus, aborted, elapsedAt>>
    /\ ProxyFrame

\* The aborted fetch is caught and the handler returns without an answer.
ProxyFetchAborted_NoAnswer ==
    /\ handler \in Proxies /\ pc = "fetching" /\ upState = "aborted"
    /\ failure' = "timeout"
    /\ pc' = "done"
    /\ UNCHANGED <<respVars, payload, fetchCalls, upStatus, upState, timerVars>>
    /\ ProxyFrame

\* proxy.js, lines 137-151; api-proxy.js, lines 193-212: the aborted fetch
\* is rejected with an AbortError; 504.
ProxyFetchAborted ==
    /\ handler \in Proxies /\ pc = "fetching" /\ upState = "aborted"
    /\ failure' = "timeout"
    /\ Respond(504, "json")
    /\ UNCHANGED <<payload, fetchCalls, upStatus, upState, timerVars>>
    /\ ProxyFrame

\* proxy.js, lines 121-135; api-proxy.js, lines 171-192: the body has come
\* and parses; 200 with the data.
ProxyBodyOk ==
    /\ handler \in Proxies /\ pc = "body"
    /\ upState' = "ended"
    /\ Respond(200, "json")
    /\ UNCHANGED <<payload, fetchCalls, upStatus, failure, timerVars>>
    /\ ProxyFrame

\* proxy.js, lines 121, 137-161; api-proxy.js, lines 171, 193-228:
\* response.json() is rejected (the body breaks off, or is not JSON); 500.
ProxyBodyError ==
    /\ handler \in Proxies /\ pc = "body"
    /\ upState' = "errored"
    /\ failure' = "stream"
    /\ Respond(500, "json")
    /\ UNCHANGED <<payload, fetchCalls, upStatus, timerVars>>
    /\ ProxyFrame

\* proxy.js, lines 108-117; api-proxy.js, lines 146-167: the error text has
\* come; the upstream's status with a JSON body.
ProxyErrorBody ==
    /\ handler \in Proxies /\ pc = "error-body"
    /\ Respond(upStatus, "json")
    /\ UNCHANGED <<payload, fetchCalls, upStatus, upState, failure, timerVars>>
    /\ ProxyFrame

\* response.text() is rejected: proxy.js, lines 108, 137-161 answers 500;
\* api-proxy.js, lines 147-167 catches it and answers the upstream's status.
ProxyErrorBodyFails ==
    /\ handler \in Proxies /\ pc = "error-body"
    /\ upState' = "errored"
    /\ Respond(IF handler = "proxy" THEN 500 ELSE upStatus, "json")
    /\ UNCHANGED <<payload, fetchCalls, upStatus, failure, timerVars>>
    /\ ProxyFrame

ProxyNext ==
    \/ ProxyStart \/ BudgetElapses
    \/ ProxyFetchOk \/ ProxyFetchNotOk \/ ProxyFetchReject \/ ProxyFetchAborted
    \/ ProxyBodyOk \/ ProxyBodyError \/ ProxyErrorBody \/ ProxyErrorBodyFails

(***************************************************************************)
(* connectToDatabase (src/unnamed/part_002), one action for each stretch   *)
(* of a call between two awaits.                                           *)
(***************************************************************************)
\* Time passes.
ClockAdvances ==
    /\ clock < CONNECTION_COOLDOWN + MaxTicks * ClockStep
    /\ clock' = clock + ClockStep
    /\ UNCHANGED <<cacheVars, clientState, callVars, relayVars, normVars, ragVars>>

\* Lines 38-50: new MongoClient(uri, ...) and the call of client.connect(),
\* by call c.
CreateClient(c, states) ==
    /\ Len(states) < MaxClients
    /\ clientState' = Append(states, "connecting")
    /\ connClient' = [connClient EXCEPT ![c] = Len(states) + 1]
    /\ connPc' = [connPc EXCEPT ![c] = "connecting"]

\* Lines 10-50, up to the first await: the cached db within the cooldown;
\* otherwise the attempt is stamped, and the cached client closed first
\* when there is one.
ConnectToDatabase(c) ==
    /\ connPc[c] = "idle"
    /\ connNow' = [connNow EXCEPT ![c] = clock]
    /\ connSince' = [connSince EXCEPT ![c] = lastConnectionAttempt]
    /\ IF clock - lastConnectionAttempt < CONNECTION_COOLDOWN /\ cachedDb # 0
       THEN /\ connResult' = [connResult EXCEPT ![c] = cachedDb]
            /\ connPc' = [connPc EXCEPT ![c] = "returned"]
            /\ UNCHANGED <<lastConnectionAttempt, clientState, connClient>>
       ELSE /\ lastConnectionAttempt' = clock
            /\ UNCHANGED connResult
            /\ IF cachedClient # 0
               THEN /\ clientState' =
                           [clientState EXCEPT ![cachedClient] = "closing"]
                    /\ connClient' = [connClient EXCEPT ![c] = cachedClient]
                    /\ connPc' = [connPc EXCEPT ![c] = "closing-cached"]
               ELSE CreateClient(c, clientState)
    /\ UNCHANGED <<clock, cachedClient, cachedDb, relayVars, normVars, ragVars>>

\* Lines 25-50: cachedClient.close() has settled, resolved or rejected; the
\* cache is emptied and the new client created.
CachedClientClosed(c) ==
    /\ connPc[c] = "closing-cached"
    /\ \E outcome \in {"closed", "close-failed"} :
           CreateClient(c, [clientState EXCEPT ![connClient[c]] = outcome])
    /\ cachedClient' = 0
    /\ cachedDb' = 0
    /\ UNCHANGED <<clock, lastConnectionAttempt, connNow, connSince,
                   connResult, relayVars, normVars, ragVars>>

\* Lines 50-56: client.connect() resolved; the client and its db are cached
\* and the db returned.
ConnectResolved(c) ==
    /\ connPc[c] = "connecting"
    /\ clientState' = [clientState EXCEPT ![connClient[c]] = "open"]
    /\ cachedClient' = connClient[c]
    /\ cachedDb' = connClient[c]
    /\ connResult' = [connResult EXCEPT ![c] = connClient[c]]
    /\ connPc' = [connPc EXCEPT ![c] = "returned"]
    /\ UNCHANGED <<clock, lastConnectionAttempt, connNow, connSince,
                   connClient, relayVars, normVars, ragVars>>

\* Lines 50, 57-60: client.connect() rejected; client.close() is called.
ConnectRejected(c) ==
    /\ connPc[c] = "connecting"
    /\ clientState' = [clientState EXCEPT ![connClient[c]] = "closing"]
    /\ connPc' = [connPc EXCEPT ![c] = "cleanup"]
    /\ UNCHANGED <<clock, cacheVars, connNow, connSince, connClient,
                   connResult, relayVars, normVars, ragVars>>

\* Lines 60-65: client.close() has settled, resolved or rejected; the error
\* of connect is thrown.
FailedClientClosed(c) ==
    /\ connPc[c] = "cleanup"
    /\ \E outcome \in {"closed", "close-failed"} :
           clientState' = [clientState EXCEPT ![connClient[c]] = outcome]
    /\ connPc' = [connPc EXCEPT ![c] = "thrown"]
    /\ UNCHANGED <<clock, cacheVars, connNow, connSince, connClient,
                   connResult, relayVars, normVars, ragVars>>

\* Line 107 and after: the call has settled, and its frame is gone.
CallSettled(c) ==
    /\ connPc[c] \in {"returned", "thrown"}
    /\ connPc' = [connPc EXCEPT ![c] = "idle"]
    /\ connNow' = [connNow EXCEPT ![c] = 0]
    /\ connSince' = [connSince EXCEPT ![c] = 0]
    /\ connClient' = [connClient EXCEPT ![c] = 0]
    /\ connResult' = [connResult EXCEPT ![c] = 0]
    /\ UNCHANGED <<clock, cacheVars, clientState, relayVars, normVars, ragVars>>

DbNext ==
    \/ ClockAdvances
    \/ \E c \in Calls :
          \/ ConnectToDatabase(c) \/ CachedClientClosed(c)
          \/ ConnectResolved(c) \/ ConnectRejected(c)
          \/ FailedClientClosed(c) \/ CallSettled(c)

\* No request is in flight in a streaming handler while the cache is looked
\* at on its own.
SpecDbInit ==
    /\ DbIdle
    /\ NormIdle
    /\ handler = "node" /\ method = "GET" /\ apiKey = TRUE
    /\ body = [parse |-> "ok", json |-> EmptyBody]
    /\ RelayIdle
    /\ RagIdle

SpecDb == SpecDbInit /\ [][DbNext]_vars

(***************************************************************************)
(* The lookup handler (src/api/rag.js), one action for each stretch         *)
(* between two awaits.                                                     *)
(***************************************************************************)
\* The part of every step of the lookup handler that leaves the request
\* and the other handlers alone.
RagFrame == UNCHANGED <<ragMethod, ragBody, ragEnv, relayVars, normVars, dbVars>>

\* res.status(st).json(...), or res.status(204).end(): the handler is done.
RagRespond(st) ==
    /\ ragStatus' = st
    /\ ragResponses' = ragResponses + 1
    /\ ragPc' = "done"

\* Lines 4-56, up to await client.connect().  A body that is absent or does
\* not parse throws at line 25, and a query that is no string at line 33:
\* the catch of line 147 answers 500.
RagStart ==
    /\ ragPc = "start"
    /\ IF ragMethod = "OPTIONS" THEN
            RagRespond(204) /\ UNCHANGED ragClient
       ELSE IF ragMethod # "POST" THEN
            RagRespond(405) /\ UNCHANGED ragClient
       ELSE IF ragBody.parse # "ok" THEN
            RagRespond(500) /\ UNCHANGED ragClient
       ELSE IF ragBody.query = "none" THEN
            RagRespond(400) /\ UNCHANGED ragClient
       ELSE IF ragBody.query # "text" THEN
            RagRespond(500) /\ UNCHANGED ragClient
       ELSE IF ~ragEnv.uri \/ ~ragEnv.dbName THEN
            RagRespond(500) /\ UNCHANGED ragClient
       ELSE IF ~(ragBody.collectionName \/ ragEnv.collection) THEN
            RagRespond(400) /\ UNCHANGED ragClient
       ELSE /\ ragClient' = "connecting"
            /\ ragPc' = "connecting"
            /\ UNCHANGED <<ragStatus, ragResponses>>
    /\ UNCHANGED <<ragSearch, ragResults>>
    /\ RagFrame

\* Lines 56-66: client.connect() resolved; db.command({listSearchIndexes})
\* is called.
RagConnectResolved ==
    /\ ragPc = "connecting"
    /\ ragClient' = "open"
    /\ ragPc' = "listing"
    /\ UNCHANGED <<ragSearch, ragResults, ragStatus, ragResponses>>
    /\ RagFrame

\* Lines 56, 147-152: client.connect() rejected; 500.
RagConnectRejected ==
    /\ ragPc = "connecting"
    /\ ragClient' = "failed"
    /\ RagRespond(500)
    /\ UNCHANGED <<ragSearch, ragResults>>
    /\ RagFrame

\* Lines 66-111: the listing of the search indexes has settled.  With a
\* vector index the aggregate is run; without one, and when the command was
\* rejected or its answer could not be read (line 76), the text search.
RagListSettled ==
    /\ ragPc = "listing"
    /\ \E hasVectorSearch \in BOOLEAN :
           ragSearch' = <<IF hasVectorSearch THEN "vector" ELSE "text">>
    /\ ragPc' = "searching"
    /\ UNCHANGED <<ragClient, ragResults, ragStatus, ragResponses>>
    /\ RagFrame

\* Lines 81-126 and 117-126: a query has given its documents, the first or
\* the fallback; client.close() is called.
RagQueryResolved ==
    /\ ragPc \in {"searching", "fallback"}
    /\ ragResults' \in {"empty", "some"}
    /\ ragClient' = "closing"
    /\ ragPc' = "closing"
    /\ UNCHANGED <<ragSearch, ragStatus, ragResponses>>
    /\ RagFrame

\* Lines 81-122: the vector or the text search was rejected; the catch of
\* line 113 runs the regex query.
RagSearchRejected ==
    /\ ragPc = "searching"
    /\ ragSearch' = Append(ragSearch, "regex")
    /\ ragPc' = "fallback"
    /\ UNCHANGED <<ragClient, ragResults, ragStatus, ragResponses>>
    /\ RagFrame

\* Lines 117-122, 147-152: the regex query was rejected too; the throw
\* leaves the catch of line 113 for that of line 147, which answers 500.
RagFallbackRejected ==
    /\ ragPc = "fallback"
    /\ RagRespond(500)
    /\ UNCHANGED <<ragClient, ragSearch, ragResults>>
    /\ RagFrame

\* Lines 126-145: client.close() resolved; 200 with the answer.
RagCloseResolved ==
    /\ ragPc = "closing"
    /\ ragClient' = "closed"
    /\ RagRespond(200)
    /\ UNCHANGED <<ragSearch, ragResults>>
    /\ RagFrame

\* Lines 126, 147-152: client.close() rejected; 500.
RagCloseRejected ==
    /\ ragPc = "closing"
    /\ ragClient' = "close-failed"
    /\ RagRespond(500)
    /\ UNCHANGED <<ragSearch, ragResults>>
    /\ RagFrame

RagNext ==
    \/ RagStart \/ RagConnectResolved \/ RagConnectRejected
    \/ RagListSettled \/ RagQueryResolved \/ RagSearchRejected
    \/ RagFallbackRejected \/ RagCloseResolved \/ RagCloseRejected

\* No request is in flight in another handler while the lookup handler is
\* looked at on its own.
SpecRagInit ==
    /\ RagInit
    /\ DbIdle
    /\ NormIdle
    /\ handler = "node" /\ method = "POST" /\ apiKey = TRUE
    /\ body = [parse |-> "ok", json |-> EmptyBody]
    /\ RelayIdle

SpecRag == SpecRagInit /\ [][RagNext]_vars

Init == RelayInit /\ NormIdle /\ DbIdle /\ RagIdle

Next ==
    \/ ClientClose
    \/ NodeStart \/ NodeFetchOk \/ NodeFetchNotOk \/ NodeFetchReject
    \/ NodeOnData \/ NodeOnEnd \/ NodeOnError
    \/ EdgeStart \/ EdgeFetchOk \/ EdgeFetchNotOk \/ EdgeFetchReject
    \/ EdgeNotOkWrite \/ EdgeNotOkClose
    \/ EdgeReadChunk \/ EdgeWriteLine \/ EdgeReadDone \/ EdgeReadError
    \/ EdgeFlushWrite \/ EdgeDoneWrite \/ EdgeCatchWrite \/ EdgeFinallyClose
    \/ EdgeOuterWrite \/ EdgeOuterClose

Spec == Init /\ [][Next]_vars

\* One request to any of the four handlers.
HandlersInit ==
    /\ handler \in {"node", "edge"} \cup Proxies
    /\ method \in Methods
    /\ apiKey \in BOOLEAN
    /\ body \in RequestBodies
    /\ RelayIdle
    /\ NormIdle
    /\ DbIdle
    /\ RagIdle

HandlersNext == Next \/ ProxyNext

SpecHandlers == HandlersInit /\ [][HandlersNext]_vars

\* The steps a handler takes by itself, once the event it waited for has
\* come: the event loop runs them.  The upstream's answer, its data, its end
\* and its errors, and the client's close, are events that may never come.
HandlerSteps ==
    \/ NodeStart \/ EdgeStart
    \/ EdgeNotOkWrite \/ EdgeNotOkClose
    \/ EdgeWriteLine \/ EdgeFlushWrite \/ EdgeDoneWrite
    \/ EdgeCatchWrite \/ EdgeFinallyClose
    \/ EdgeOuterWrite \/ EdgeOuterClose

SpecFair == Init /\ [][Next]_vars /\ WF_vars(HandlerSteps)

(***************************************************************************)
(* Properties of the normalization, checked under SpecNorm.                *)
(***************************************************************************)
Normalizers == {"node", "edge", "proxy", "api-proxy"}

IsInteger(v) == v.t = "number" /\ v.d = 1

\* C8: in every handler that normalizes max_tokens, the value sent upstream
\* is 4008 when the caller gives none, 1 when the caller gives 0, the
\* handler's ceiling when the caller gives 999999, and the caller's own value
\* when it lies between 1 and the ceiling.  (The streaming handler of part_000
\* and api-proxy.js send 4008 for 0.)
C8_MaxTokensTable ==
    nHandler \in Normalizers =>
        LET given == nBody.max_tokens
            sent == nPayload.max_tokens
            ceiling == IF nHandler = "edge" THEN 8192 ELSE 40000
        IN  /\ given = Undefined => sent = Num(4008)
            /\ given = Num(0) => sent = Num(1)
            /\ given = Num(999999) => sent = Num(ceiling)
            /\ IsInteger(given) /\ 1 <= given.n /\ given.n <= ceiling => sent = given

\* C9: for every integer max_tokens of the caller, the max_tokens sent
\* upstream is an integer between 1 and the handler's own ceiling: 40000 in
\* the Node streaming handler and the two proxies, 8192 in the edge handler.
C9_MaxTokensInRange ==
    nHandler \in Normalizers /\ IsInteger(nBody.max_tokens) =>
        /\ IsInteger(nPayload.max_tokens)
        /\ 1 <= nPayload.max_tokens.n
        /\ nHandler = "edge" => nPayload.max_tokens.n <= 8192
        /\ nHandler # "edge" => nPayload.max_tokens.n <= 40000
        /\ nBody.max_tokens.n >= 40000 /\ nHandler # "edge"
               => nPayload.max_tokens.n = 40000
        /\ nBody.max_tokens.n >= 8192 /\ nHandler = "edge"
               => nPayload.max_tokens.n = 8192

\* A very large max_tokens has met the edge ceiling, and the Node ceiling.
C9_Witness ==
    /\ nBody.max_tokens = Num(999999)
    /\ \/ nHandler = "edge" /\ nPayload.max_tokens = Num(8192)
       \/ nHandler = "node" /\ nPayload.max_tokens = Num(40000)

\* C10: for a body that holds only model and messages, both streaming
\* handlers send max_tokens 4008, temperature 0.6, top_p 1, top_k 40, both
\* penalties 0 and stream true, with model and messages as given.
C10_DefaultsPayload ==
    nBody = ModelAndMessages /\ nHandler \in {"node", "edge"} =>
        nPayload = [model |-> Str(1),
                    messages |-> Arr(1),
                    max_tokens |-> Num(4008),
                    temperature |-> Dec(6, 10),
                    top_p |-> Num(1),
                    top_k |-> Num(40),
                    presence_penalty |-> Num(0),
                    frequency_penalty |-> Num(0),
                    stream |-> Bool(TRUE)]

\* The Node streaming handler has normalized a body of model and messages only.
C10_Witness ==
    nBody = ModelAndMessages /\ nHandler = "node" /\ nPayload.stream = Bool(TRUE)

OptionalFields ==
    {"max_tokens", "temperature", "top_p", "top_k", "presence_penalty",
     "frequency_penalty", "stream"}

\* C11: in the payload a streaming handler sends upstream, every optional
\* field (max_tokens, temperature, top_p, top_k, both penalties, stream) is
\* present and not null, whatever the caller's body holds, null included.
\* (For a field the caller sets to null, the handler of part_000 deletes the
\* field and the edge handler sends the null.)
C11_OptionalFieldsPresent ==
    nHandler \in {"node", "edge"} =>
        \A f \in OptionalFields : nPayload[f] \notin {Undefined, Null}

\* C12: in both streaming handlers the payload sent upstream has stream =
\* true, whether the caller's `stream` is true, false, absent or something
\* else.
C12_StreamForced ==
    nHandler \in {"node", "edge"} => nPayload.stream = Bool(TRUE)

\* A streaming handler has normalized a body whose `stream` is false, and
\* one whose `stream` is a string.
C12_Witness ==
    /\ nHandler \in {"node", "edge"}
    /\ nBody.stream \in {Bool(FALSE), Str(2)}
    /\ nPayload.stream = Bool(TRUE)

Renormalizers == {"node-again", "edge-again", "proxy-again", "api-proxy-again"}

\* C13: a handler that is given a payload it has produced sends that same
\* payload: its defaults, its max_tokens clamp and its forcing of stream
\* change nothing the second time.  (The handler of part_000 deletes a field
\* the caller set to null, and fills in the default when it is given the
\* payload without the field.)
C13_NormalizeIdempotent ==
    nHandler \in Renormalizers => nPayload = nBody

(***************************************************************************)
(* Properties of the streaming handlers, checked under Spec.               *)
(***************************************************************************)
\* The handler reached its call of the upstream: a relay session exists.
Relayed == fetchCalls > 0

SessionOver == Relayed /\ pc = "done"

\* The client's connection closed while the session was still under way.
Cancelled == closeSnap.pc \notin {"none", "done"}

Count(kind) == Cardinality({i \in 1..Len(sink) : sink[i].kind = kind})

EndsWithErrorDone ==
    /\ Len(sink) >= 2
    /\ sink[Len(sink) - 1].kind = "error"
    /\ sink[Len(sink)].kind = "done"

\* C1: in both streaming handlers a session that ends without the client
\* having closed the connection (end of the upstream's data, upstream status
\* other than 2xx, failed call, upstream error in mid-stream) has written
\* exactly one done marker, and that marker is the last frame written.  (The
\* edge handler writes none after an error.)
C1_ExactlyOneDone ==
    SessionOver /\ ~Cancelled =>
        /\ Count("done") = 1
        /\ sink[Len(sink)].kind = "done"

\* C2: in every relay session the sink is closed exactly once: res.end() or
\* writer.close() is never called a second time, and has been called once
\* when the session is over.
C2_ClosedExactlyOnce ==
    Relayed =>
        /\ closeCalls <= 1
        /\ pc = "done" => closeCalls = 1

\* C3: after an upstream error in mid-stream the relay has written exactly
\* one error frame, the done marker right after it, and closed the sink.
C3_ErrorThenDone ==
    SessionOver /\ ~Cancelled /\ failure = "stream" =>
        /\ Count("error") = 1
        /\ EndsWithErrorDone
        /\ sinkClosed

\* C4: when the client's connection closes while the upstream is still
\* producing data, the relay reads no more of the upstream, releases it,
\* closes the sink, and writes neither a done marker nor any other frame
\* after the disconnect.
C4_CancelReleasesUpstream ==
    /\ closeSnap.pc \in {"streaming", "reading", "writing"}
    /\ closeSnap.upOpen
    /\ closeSnap.upPos < Len(upText)
    /\ failure = "none"
    /\ pc = "done"
    => /\ upstreamReleased
       /\ upPos = closeSnap.upPos
       /\ closeCalls >= 1
       /\ Len(sink) = closeSnap.sinkLen
       /\ Count("done") = 0

RECURSIVE LinesFrom(_, _)
\* The lines of a text, read character by character: `line` is the line
\* under way.  The last one is the remainder no terminator ends.
LinesFrom(text, line) ==
    IF text = <<>> THEN <<line>>
    ELSE IF Head(text) = LF THEN <<line>> \o LinesFrom(Tail(text), <<>>)
    ELSE LinesFrom(Tail(text), Append(line, Head(text)))

AllLines(text) == LinesFrom(text, <<>>)

TerminatedLines(text) == SubSeq(AllLines(text), 1, Len(AllLines(text)) - 1)

Remainder(text) == AllLines(text)[Len(AllLines(text))]

NotBlank(line) == ~IsBlank(line)

NotEmpty(line) == line # <<>>

\* The edge relay wrote its done marker: its session ran to the end of the
\* upstream's data with every write accepted.
EdgeCompleted ==
    handler = "edge" /\ pc = "done" /\ sink # <<>> /\ sink[Len(sink)].kind = "done"

\* The lines the data frames carry, the wrapping "data: " not counted.
DataLines == [i \in 1..(Len(sink) - 1) |-> sink[i].text]

\* What the edge relay writes for a body it receives in one read.
RelayInOneRead(text) ==
    LET r == EdgeOnRead(<<>>, text)
    IN  r.frames
        \o (IF r.carry # <<>> THEN <<DataFrame(r.carry, TRUE)>> ELSE <<>>)
        \o <<DoneFrame>>

C6_NotOkIsPlainError ==
    failure = "status" /\ pc = "done" =>
        /\ status = upStatus
        /\ ctype = "json"
        /\ jsonSent = 1
        /\ sink = <<>>

\* C7: once the stream headers are committed, no failure sets another
\* status or other headers or sends a JSON error body, and every failure is
\* delivered as an error frame followed by done.  (The first half holds in
\* both handlers, the second in the Node handler; the edge handler writes the
\* error frame without done.)
C7_FailuresStayInStream ==
    /\ Relayed => status = 200 /\ ctype = "event-stream" /\ jsonSent = 0
    /\ SessionOver /\ ~Cancelled /\ failure # "none" => EndsWithErrorDone

\* C14: a POST whose body parses but holds no `model`, or no `messages`, is
\* answered with a 4xx status and a JSON body, and the upstream is not called
\* for it.  (The handler of part_000 checks neither property, the edge handler
\* only `model`.)
C14_MissingFieldsRejected ==
    /\ method = "POST" /\ apiKey /\ body.parse = "ok"
    /\ body.json.model = Undefined \/ body.json.messages = Undefined
    /\ pc # "start"
    => /\ status \in 400..499
       /\ ctype = "json" /\ jsonSent = 1
       /\ fetchCalls = 0

\* C15: in both streaming handlers an OPTIONS request is answered 204 with
\* no body, any method other than OPTIONS and POST is answered 405 with a
\* JSON body, a POST gets neither answer and, with the key set and a body of
\* model and messages, reaches the call of the upstream; for a request that
\* is not a POST the upstream is never called and no stream header is sent.
C15_MethodContract ==
    pc # "start" =>
        /\ method = "OPTIONS" =>
               status = 204 /\ ctype = "none" /\ jsonSent = 0 /\ sink = <<>>
        /\ method \notin {"OPTIONS", "POST"} =>
               status = 405 /\ ctype = "json" /\ jsonSent = 1 /\ sink = <<>>
        /\ method # "POST" =>
               fetchCalls = 0 /\ ctype # "event-stream" /\ pc = "done"
        /\ method = "POST" => status \notin {204, 405}
        /\ method = "POST" /\ apiKey /\ body = [parse |-> "ok", json |-> ModelAndMessages]
               => fetchCalls = 1 /\ ctype = "event-stream"

\* A GET has been answered 405 by the edge handler.
C15_Witness ==
    handler = "edge" /\ method = "GET" /\ pc = "done" /\ status = 405 /\ fetchCalls = 0

\* C16: when the client's connection has closed before the handler calls the
\* upstream, the upstream is not called; when it has closed before the first
\* read of the upstream's data, no byte of the upstream is read.  (Neither
\* handler looks at the connection before its call, the handler of part_000
\* listens for the close only once the upstream has answered, and the edge
\* handler never does.)
C16_CancelledBeforeRead ==
    /\ closeSnap.pc = "start" => fetchCalls = 0
    /\ closeSnap.pc \in {"start", "fetching"} => upPos = 0

IsDataFrame(f) == f.kind = "data"

IsChunkFrame(f) == f.kind = "chunk"

FrameTexts(frames) == [i \in 1..Len(frames) |-> frames[i].text]

IsPrefix(a, b) == Len(a) <= Len(b) /\ SubSeq(b, 1, Len(a)) = a

\* The upstream bytes the handler has received.
Received == SubSeq(upText, 1, upPos)

\* The lines of the received bytes that the edge relay has to write, in the
\* order of their bytes: the terminated lines that are not blank and, once
\* the upstream's data has ended, the remainder.
ReceivedLines ==
    SelectSeq(TerminatedLines(Received), NotBlank)
    \o (IF upState = "ended" /\ Remainder(Received) # <<>>
        THEN <<Remainder(Received)>> ELSE <<>>)

\* C17: what the sink holds is in the order of the upstream's bytes.  In the
\* handler of part_000 the bytes written are the bytes received, in their
\* order.  In the edge handler the lines written are the first of the lines
\* of the received bytes, in their order, and all the lines of the earlier
\* reads have been written when the next read begins.
C17_SourceOrder ==
    /\ handler = "node" =>
           Flatten(FrameTexts(SelectSeq(sink, IsChunkFrame))) = Received
    /\ handler = "edge" =>
           /\ IsPrefix(FrameTexts(SelectSeq(sink, IsDataFrame)), ReceivedLines)
           /\ pc = "reading" =>
                  FrameTexts(SelectSeq(sink, IsDataFrame)) = ReceivedLines

\* The edge relay has written two different terminated lines in the order
\* of their bytes, a read having ended inside a line.
C17_Witness ==
    /\ EdgeCompleted
    /\ midLineCut
    /\ Len(sink) = 3
    /\ sink[1].text # sink[2].text
    /\ Remainder(upText) = <<>>

\* C18: every relay session whose client stays connected comes to its end
\* with the sink closed, also when the upstream neither ends nor errors: a
\* deadline then abandons the upstream call.  (Neither streaming handler sets
\* a timer or passes an abort signal to fetch: a session whose upstream is
\* silent waits for ever.)
C18_SessionTerminates ==
    (Relayed /\ ~clientGone) ~> (clientGone \/ (pc = "done" /\ sinkClosed))

\* C21: every frame the edge relay has written begins with `data:`, ends
\* with the blank-line separator "\n\n" and holds no line terminator before
\* that separator, whatever the upstream sent.
C21_FramesWellFormed ==
    handler = "edge" =>
        \A i \in 1..Len(sink) :
            LET bytes == FrameBytes(sink[i])
            IN  /\ StartsWith(bytes, DataPrefix)
                /\ Len(bytes) >= Len(DataPrefix) + 2
                /\ bytes[Len(bytes) - 1] = LF /\ bytes[Len(bytes)] = LF
                /\ \A j \in 1..(Len(bytes) - 2) : bytes[j] # LF

\* The edge relay has written a line it wrapped, and an error frame after it.
C21_Witness ==
    /\ handler = "edge"
    /\ Len(sink) >= 2
    /\ sink[1].kind = "data" /\ sink[1].wrapped
    /\ sink[Len(sink)].kind = "error"

\* What C22 has written for a complete line that is not blank.
LineBytes(line) ==
    IF StartsWith(line, DataPrefix) THEN line \o <<LF, LF>>
    ELSE DataPrefix \o <<" ">> \o line \o <<LF, LF>>

\* C22: when the edge relay begins a read, what it has written is, for each
\* terminated line received that is not blank, and in their order, one
\* frame: the line and "\n\n" if the line begins with `data:`, and
\* "data: ", the line and "\n\n" otherwise; nothing is written for a line
\* that is empty or white space only.
C22_OneFramePerLine ==
    handler = "edge" /\ pc = "reading" =>
        LET lines == SelectSeq(TerminatedLines(Received), NotBlank)
        IN  /\ Len(sink) = Len(lines)
            /\ \A i \in 1..Len(sink) : FrameBytes(sink[i]) = LineBytes(lines[i])

\* The edge relay has written a `data:` line as it came and wrapped another
\* line.
C22_Witness ==
    /\ handler = "edge" /\ pc = "reading"
    /\ Len(sink) = 2
    /\ sink[1].wrapped # sink[2].wrapped

\* C23: when the edge relay has come to the end of the upstream's data and
\* written done, the carry-over left then, if it held any character, is the
\* one frame written just before done, and nothing stands there for an
\* empty carry-over; no character received is missing from the frames
\* except line terminators and the lines that are blank.
C23_CarryFlushedAtEnd ==
    EdgeCompleted =>
        LET lines == SelectSeq(TerminatedLines(upText), NotBlank)
            rest == Remainder(upText)
            frames == SubSeq(sink, 1, Len(sink) - 1)
        IN  /\ rest # <<>> =>
                   /\ Len(frames) = Len(lines) + 1
                   /\ frames[Len(frames)] = DataFrame(rest, TRUE)
            /\ rest = <<>> => Len(frames) = Len(lines)
            /\ Flatten(FrameTexts(frames)) = Flatten(lines) \o rest

\* The edge relay has written, before done, a carry-over that begins with
\* `data:`, after a line.
C23_Witness ==
    /\ EdgeCompleted
    /\ StartsWith(Remainder(upText), DataPrefix)
    /\ Len(sink) = 3
    /\ sink[2].text = Remainder(upText)

\* C28: while the edge relay reads and writes lines, its carry-over holds no
\* line terminator and is what the received text holds after its last line
\* terminator (all of it when there is none); the frames written or about to
\* be written are those of the terminated lines only: the last element of a
\* split is not among them.
C28_CarryIsOpenLine ==
    handler = "edge" /\ pc \in {"reading", "writing"} =>
        /\ \A i \in 1..Len(incompleteChunk) : incompleteChunk[i] # LF
        /\ incompleteChunk = Remainder(Received)
        /\ Len(sink) + Len(toWrite) =
               Len(SelectSeq(TerminatedLines(Received), NotBlank))

\* The edge relay holds a carry-over that is not blank after it has written
\* a line, a read having ended inside a line.
C28_Witness ==
    /\ handler = "edge" /\ pc = "reading"
    /\ sink # <<>>
    /\ NotBlank(incompleteChunk)
    /\ midLineCut

\* C29: what the edge relay writes for an upstream text is what it writes
\* for that text followed by one line terminator: the last line is written
\* the same way with and without its terminator.  (The carry-over left at the
\* end of the data is always wrapped and is written even when blank, unlike a
\* terminated line.)
C29_TerminatorIndifferent ==
    EdgeCompleted => sink = RelayInOneRead(upText \o <<LF>>)

\* The steps in which a streaming handler calls res.write or writer.write,
\* whether the write is accepted or not.
WriteAttempt ==
    \/ NodeOnData \/ NodeOnEnd \/ NodeOnError \/ NodeFetchNotOk \/ NodeFetchReject
    \/ EdgeNotOkWrite \/ EdgeWriteLine \/ EdgeFlushWrite \/ EdgeDoneWrite
    \/ EdgeCatchWrite \/ EdgeOuterWrite

\* C30: in both streaming handlers no step calls res.write or writer.write
\* once res.end() or writer.close() has closed the sink, in whatever order
\* the upstream's data, end and errors, the client's close and the rejected
\* writes and closes come.
C30_NoWriteAfterClose == [][WriteAttempt => ~sinkClosed]_vars

\* The handler of part_000 has closed the sink on the client's close with
\* upstream data still to come, and has written nothing since.
C30_Witness ==
    /\ handler = "node" /\ sinkClosed
    /\ closeSnap.pc = "streaming" /\ closeSnap.upPos < Len(upText)
    /\ Len(sink) = closeSnap.sinkLen /\ sink # <<>>

\* C25: every error frame a streaming handler has written, whether for an
\* upstream status other than 2xx, a failed call or an error in mid-stream,
\* is "data: " and a JSON object whose `error` is the boolean true and whose
\* `message` is a string.
C25_ErrorFrameShape ==
    \A i \in 1..Len(sink) :
        sink[i].kind = "error" =>
            /\ StartsWith(FrameBytes(sink[i]), DataPrefix \o <<" ", "{">>)
            /\ Len(sink[i].text) = 1
            /\ ErrorJson(sink[i].text[1]).error = Bool(TRUE)
            /\ ErrorJson(sink[i].text[1]).message.t = "string"

\* Each handler has written an error frame: for an upstream status, for a
\* failed call, or in mid-stream.
C25_Witness ==
    /\ failure \in {"status", "fetch", "stream"}
    /\ sink # <<>>
    /\ sink[Len(sink)].kind = "error" \/ EndsWithErrorDone

(***************************************************************************)
(* Properties of the four handlers, checked under SpecHandlers.            *)
(***************************************************************************)
\* C19: in proxy.js and api-proxy.js, when 120 s have passed since the timer
\* was set and the upstream call was still under way then (fetch pending,
\* or the response's body still awaited), the call has been aborted and
\* the caller's answer is a JSON body with status 504, and no other.  (Both
\* proxies call clearTimeout as soon as fetch resolves, before they read the
\* body.)
C19_TimeoutGives504 ==
    /\ handler \in Proxies
    /\ elapsedAt \in {"fetching", "body", "error-body"}
    /\ pc = "done"
    => /\ aborted
       /\ status = 504 /\ ctype = "json" /\ jsonSent = 1

C24_CancelOneShot ==
    [][/\ clientGone /\ Relayed =>
              clientGone' /\ sink' = sink /\ closeCalls' = closeCalls
       /\ aborted =>
              aborted' /\ timer' = "fired" /\ upState' = "aborted"
              /\ fetchCalls' = fetchCalls]_vars

\* Responses sent so far: JSON bodies, and a bare end() after a status.
ResponsesSent == jsonSent + (IF status # 0 /\ ctype = "none" THEN 1 ELSE 0)

\* C33: the handler of proxy.js sends no response before it is done and
\* exactly one when it is, on each of its paths: 204 to OPTIONS, 405 to
\* another method than POST, 500 without the API key, 400 to a body that
\* does not parse, the upstream's status when that is not 2xx (500 when its
\* text cannot be read), 504 when the timer aborted the call, 500 when the
\* call or the reading of its body failed, and 200 on success.
C33_ExactlyOneResponse ==
    handler = "proxy" =>
        /\ ResponsesSent = IF pc = "done" THEN 1 ELSE 0
        /\ pc = "done" =>
              status =
                IF method = "OPTIONS" THEN 204
                ELSE IF method # "POST" THEN 405
                ELSE IF ~apiKey THEN 500
                ELSE IF body.parse # "ok" THEN 400
                ELSE IF failure = "timeout" THEN 504
                ELSE IF failure \in {"fetch", "stream"} THEN 500
                ELSE IF failure = "status" /\ upState = "errored" THEN 500
                ELSE IF failure = "status" THEN upStatus
                ELSE 200

\* The timer of proxy.js has aborted the call, and the handler has answered.
C33_Witness ==
    /\ handler = "proxy" /\ pc = "done"
    /\ failure = "timeout" /\ aborted /\ fetchCalls = 1
    /\ ResponsesSent = 1

(***************************************************************************)
(* Properties of the connection cache, checked under SpecDb.               *)
(***************************************************************************)
\* Call c creates its MongoClient in this step.
Creates(c) ==
    /\ Len(clientState') = Len(clientState) + 1
    /\ connPc'[c] = "connecting" /\ connPc[c] # "connecting"

\* C26: a call of connectToDatabase made less than CONNECTION_COOLDOWN after
\* the previous attempt never creates a new MongoClient, whether or not a db
\* is cached: at most one attempt is started in a cooldown window.
C26_OneAttemptPerCooldown ==
    [][\A c \in Calls :
          Creates(c) => connNow'[c] - connSince'[c] >= CONNECTION_COOLDOWN]_vars

\* C27: when client.connect() has failed in a call, at the moment the call
\* throws the error the client it created has had close() called and
\* settled, and cachedClient and cachedDb are both null.
C27_FailedConnectClearsCache ==
    [][\A c \in Calls :
          connPc[c] = "cleanup" /\ connPc'[c] = "thrown" =>
              /\ clientState'[connClient[c]] \in {"closed", "close-failed"}
              /\ cachedClient' = 0
              /\ cachedDb' = 0]_vars

\* C31: under every interleaving of overlapping calls, each MongoClient
\* whose connect has resolved is the current cachedClient or has had close()
\* called on it: no open client is left outside the cache.
C31_NoOrphanedClient ==
    \A k \in 1..Len(clientState) :
        clientState[k] = "open" => cachedClient = k

(***************************************************************************)
(* Properties of the lookup handler, checked under SpecRag.                *)
(***************************************************************************)
\* C32: once the handler's client has connected, no response is sent
\* before close() has been called on it and has settled: on every path
\* after the connect, also when the search and the regex query that stands
\* in for it both fail.
C32_ClosedBeforeResponse ==
    ragResponses > 0 /\ ragClient \notin {"none", "failed"} =>
        ragClient \in {"closed", "close-failed"}

=============================================================================
